---- MODULE Spec2Model ----
(***************************************************************************)
(* Model of h2wtf: the HTTP/2 stream event collector of                    *)
(* src/httpd/h2/stream.py (H2StreamEventsCollector, H2StreamEvents,        *)
(* EventMatch), the statistics of src/h2wtf.py (H2StreamStats,             *)
(* H2StreamStatistics, H2WorkerStatistics, the loop of H2WTF.main) and the *)
(* log reader of src/httpd/log.py (HttpTimestampParser, HttpdLogParser,    *)
(* HttpdLogEntryIterator).                                                 *)
(*                                                                         *)
(* Text is modelled as sequences of one-character strings, so that the     *)
(* flattened identity "child-session-stream", its split into integers and  *)
(* the filter patterns built from user strings are computed as the code    *)
(* computes them.  A log message is abstracted to the shape of its text    *)
(* (which of the collector's regular expressions it matches) and the       *)
(* digit strings its capture groups yield.                                 *)
(***************************************************************************)
EXTENDS Integers, Sequences, FiniteSets, TLC

\* ------------------------------------------------------------------ bounds
\* stored events (over all streams) after which no further record is observed
MaxEvents == 3
\* elapsed times carried by records are 0..MaxTime
MaxTime == 1
\* streams handed to add_streams
MaxStreams == 3
\* started and ended times of those streams are 0..MaxInstant
MaxInstant == 2
\* calls of add_streams on one H2WorkerStatistics
MaxBuilds == 2
\* lines of the log file that the iterator reads
MaxLines == 3
\* entries of the log handed to add_events
MaxLog == 3
\* entries of the log in time order that a collector and add_events read
MaxOrdered == 4

\* ------------------------------------------------------------------ text
Digit == {"0", "1", "2", "3", "4", "5", "6", "7", "8", "9"}

DigitVal(c) ==
    CASE c = "0" -> 0 [] c = "1" -> 1 [] c = "2" -> 2 [] c = "3" -> 3
      [] c = "4" -> 4 [] c = "5" -> 5 [] c = "6" -> 6 [] c = "7" -> 7
      [] c = "8" -> 8 [] c = "9" -> 9

\* \d+ : a non-empty run of digits
IsDigits(s) == Len(s) > 0 /\ \A i \in 1..Len(s) : s[i] \in Digit

\* int(s) for a digit string
RECURSIVE int(_)
int(s) ==
    IF Len(s) = 0 THEN 0
    ELSE 10 * int(SubSeq(s, 1, Len(s) - 1)) + DigitVal(s[Len(s)])

\* str.split('-')
RECURSIVE split(_)
split(s) ==
    IF \A i \in 1..Len(s) : s[i] # "-" THEN <<s>>
    ELSE LET k == CHOOSE i \in 1..Len(s) :
                     s[i] = "-" /\ \A j \in 1..(i - 1) : s[j] # "-"
         IN <<SubSeq(s, 1, k - 1)>> \o split(SubSeq(s, k + 1, Len(s)))

\* str.endswith
endswith(s, suffix) ==
    /\ Len(s) >= Len(suffix)
    /\ SubSeq(s, Len(s) - Len(suffix) + 1, Len(s)) = suffix

\* Optional[...] : the absent value
None == <<>>

\* ------------------------------------------------------------ H2StreamEvents
\* f"{child}-{session}-{stream}", and "-0" when the pattern has no stream group
global_id(hasStreamGroup, msg) ==
    IF hasStreamGroup
    THEN msg.child \o <<"-">> \o msg.session \o <<"-">> \o msg.stream
    ELSE msg.child \o <<"-">> \o msg.session \o <<"-", "0">>

split_gid(gid) ==
    LET parts == split(gid)
    IN <<int(parts[1]), int(parts[2]),
         IF Len(parts) > 2 THEN int(parts[3]) ELSE 0>>

\* H2StreamEvents(gid): _events is a dict name -> entries in order of arrival
\* (a single entry and a list of entries are both kept as a sequence)
H2StreamEvents(gid) ==
    [gid        |-> gid,
     is_conn    |-> endswith(gid, <<"-", "0">>),
     child      |-> split_gid(gid)[1],
     session_id |-> split_gid(gid)[2],
     stream_id  |-> split_gid(gid)[3],
     events     |-> [n \in {} |-> <<>>]]

\* add_event that replaces what is stored under the name
add_event_overwrite(s, name, e) ==
    [s EXCEPT !.events =
        [n \in DOMAIN s.events \cup {name} |->
            IF n = name THEN <<e>> ELSE s.events[n]]]

add_event(s, name, e) ==
    IF name \in DOMAIN s.events
    THEN [s EXCEPT !.events = [@ EXCEPT ![name] = Append(@, e)]]
    ELSE [s EXCEPT !.events =
             [n \in DOMAIN s.events \cup {name} |->
                 IF n = name THEN <<e>> ELSE s.events[n]]]

\* event that returns the last entry recorded under the name
event_last(s, name) ==
    IF name \notin DOMAIN s.events THEN None
    ELSE s.events[name][Len(s.events[name])]

\* the first entry recorded under the name, None when there is none
event(s, name) ==
    IF name \notin DOMAIN s.events THEN None ELSE s.events[name][1]

\* ------------------------------------------------------------ EventMatch
\* which of the collector's patterns match a message of the given shape
\* (re.match of the pattern against the message text)
PatternsMatching(shape) ==
    CASE shape = "created"          -> {"RE_STREAM_CREATED"}
      [] shape = "schedule"         -> {"RE_STREAM_SCHEDULE"}
      [] shape = "c2_process"       -> {"RE_STREAM_STARTED"}
      [] shape = "submit_response"  -> {"RE_STREAM_SUBMIT"}
      [] shape = "request_done"     -> {"RE_STREAM_ENDED"}
      [] shape = "sent_headers_eos" -> {"RE_STREAM_CLOSED1", "RE_STREAM_FRAME2"}
      [] shape = "sent_data_eos"    -> {"RE_STREAM_CLOSED2", "RE_STREAM_FRAME2"}
      [] shape = "cleanup"          -> {"RE_STREAM_CLEANUP"}
      [] shape = "rst_stream"       -> {"RE_STREAM_RESET"}
      [] shape = "reset_error"      -> {"RE_STREAM_RESET2"}
      [] shape = "session_cleanup"  -> {"RE_SESSION_CLEANUP"}
      [] shape = "session_goaway"   -> {"RE_SESSION_ERROR"}
      [] shape = "session_frame"    -> {"RE_STREAM_FRAME"}
      [] shape = "stream_frame"     -> {"RE_STREAM_FRAME2"}
      [] OTHER                      -> {}

\* patterns built from RE_SID only have no 'stream' group
HasStreamGroup(pattern) ==
    pattern \notin {"RE_SESSION_CLEANUP", "RE_SESSION_ERROR"}

EventMatch(ev, pattern, creating, aliasing) ==
    [event |-> ev, pattern |-> pattern, creating |-> creating,
     aliasing |-> aliasing]

\* EventMatch.match: the raw identity, None when the pattern does not match
match(m, e) ==
    IF m.pattern \in PatternsMatching(e.message.shape)
    THEN global_id(HasStreamGroup(m.pattern), e.message)
    ELSE None

\* ------------------------------------------------- H2StreamEventsCollector
\* the rules with the creating flag also set on the 'started' rule
LIFETIME_MATCHER_started_creating ==
    << EventMatch("created",   "RE_STREAM_CREATED",  TRUE,  FALSE),
       EventMatch("scheduled", "RE_STREAM_SCHEDULE", FALSE, FALSE),
       EventMatch("started",   "RE_STREAM_STARTED",  TRUE,  FALSE),
       EventMatch("response",  "RE_STREAM_SUBMIT",   FALSE, TRUE),
       EventMatch("ended",     "RE_STREAM_ENDED",    FALSE, FALSE),
       EventMatch("ended",     "RE_STREAM_CLOSED1",  FALSE, FALSE),
       EventMatch("ended",     "RE_STREAM_CLOSED2",  FALSE, FALSE),
       EventMatch("cleanup",   "RE_STREAM_CLEANUP",  FALSE, FALSE),
       EventMatch("reset",     "RE_STREAM_RESET",    FALSE, FALSE),
       EventMatch("reset",     "RE_STREAM_RESET2",   FALSE, FALSE),
       EventMatch("cleanup",   "RE_SESSION_CLEANUP", FALSE, FALSE),
       EventMatch("error",     "RE_SESSION_ERROR",   FALSE, FALSE) >>

LIFETIME_MATCHER ==
    << EventMatch("created",   "RE_STREAM_CREATED",  TRUE,  FALSE),
       EventMatch("scheduled", "RE_STREAM_SCHEDULE", FALSE, FALSE),
       EventMatch("started",   "RE_STREAM_STARTED",  FALSE, FALSE),
       EventMatch("response",  "RE_STREAM_SUBMIT",   FALSE, TRUE),
       EventMatch("ended",     "RE_STREAM_ENDED",    FALSE, FALSE),
       EventMatch("ended",     "RE_STREAM_CLOSED1",  FALSE, FALSE),
       EventMatch("ended",     "RE_STREAM_CLOSED2",  FALSE, FALSE),
       EventMatch("cleanup",   "RE_STREAM_CLEANUP",  FALSE, FALSE),
       EventMatch("reset",     "RE_STREAM_RESET",    FALSE, FALSE),
       EventMatch("reset",     "RE_STREAM_RESET2",   FALSE, FALSE),
       EventMatch("cleanup",   "RE_SESSION_CLEANUP", FALSE, FALSE),
       EventMatch("error",     "RE_SESSION_ERROR",   FALSE, FALSE) >>

FRAME_MATCHER == EventMatch("frame", "RE_STREAM_FRAME", FALSE, FALSE)

FRAME_MATCHER2 == EventMatch("frame", "RE_STREAM_FRAME2", FALSE, FALSE)

\* a compiled regular expression: a sequence of tokens, each a literal
\* character or DIGITS (\d+); re.match anchors at the start, and at the end
\* only when the expression ends in $
DIGITS == "\\d+"

RECURSIVE re_match(_, _, _)
re_match(p, s, dollar) ==
    IF Len(p) = 0 THEN (~dollar \/ Len(s) = 0)
    ELSE IF Head(p) = DIGITS
         THEN \E k \in 1..Len(s) :
                 /\ IsDigits(SubSeq(s, 1, k))
                 /\ re_match(Tail(p), SubSeq(s, k + 1, Len(s)), dollar)
         ELSE /\ Len(s) > 0
              /\ s[1] = Head(p)
              /\ re_match(Tail(p), Tail(s), dollar)

\* the pattern for a filter string, a pair taken as session and stream
gid_pattern_pair_suffix(s) ==
    IF re_match(<<DIGITS, "-", DIGITS, "-", DIGITS>>, s, TRUE)
    THEN s
    ELSE IF re_match(<<DIGITS, "-", DIGITS>>, s, FALSE)
    THEN <<DIGITS, "-">> \o s
    ELSE IF re_match(<<DIGITS, "-">>, s, FALSE)
    THEN s \o <<DIGITS, "-", DIGITS>>
    ELSE <<DIGITS, "-", DIGITS, "-">> \o s

\* the pattern compiled for one filter string
gid_pattern(s) ==
    IF re_match(<<DIGITS, "-", DIGITS, "-", DIGITS>>, s, TRUE)
    THEN s
    ELSE IF re_match(<<DIGITS, "-", DIGITS>>, s, FALSE)
    THEN s \o <<"-", DIGITS>>
    ELSE IF re_match(<<DIGITS, "-">>, s, FALSE)
    THEN s \o <<DIGITS, "-", DIGITS>>
    ELSE <<DIGITS, "-", DIGITS, "-">> \o s

\* identifier is [is_none, items]; the result is None or a list of patterns,
\* every one of them of the form ^...$
gid_patterns_for(identifier) ==
    IF identifier.is_none \/ Len(identifier.items) = 0
    THEN None
    ELSE [i \in 1..Len(identifier.items) |-> gid_pattern(identifier.items[i])]

\* __init__ that puts the frame rules in front of the lifetime rules
Collector_frames_first(with_frames, for_streams) ==
    [streams_by_gid |-> <<>>,
     gid_by_alias   |-> [g \in {} |-> g],
     matcher        |-> IF with_frames
                        THEN <<FRAME_MATCHER, FRAME_MATCHER2>> \o LIFETIME_MATCHER
                        ELSE LIFETIME_MATCHER,
     for_streams    |-> gid_patterns_for(for_streams)]

\* __init__
Collector(with_frames, for_streams) ==
    [streams_by_gid |-> <<>>,
     gid_by_alias   |-> [g \in {} |-> g],
     matcher        |-> IF with_frames
                        THEN LIFETIME_MATCHER \o <<FRAME_MATCHER, FRAME_MATCHER2>>
                        ELSE LIFETIME_MATCHER,
     for_streams    |-> gid_patterns_for(for_streams)]

\* _streams_by_gid is a dict in insertion order, kept as the sequence of its
\* values; these are its keys, membership and lookup
gids(self) == {self.streams_by_gid[i].gid : i \in 1..Len(self.streams_by_gid)}

stream_of(self, gid) ==
    self.streams_by_gid[CHOOSE i \in 1..Len(self.streams_by_gid) :
                            self.streams_by_gid[i].gid = gid]

\* the candidates of _alias_git taken from the streams of every child
candidates_any_child(self, gid) ==
    {i \in 1..Len(self.streams_by_gid) :
        self.streams_by_gid[i].stream_id = split_gid(gid)[3]}

\* the candidates of _alias_git: positions of the streams with the child and
\* the stream number of gid
candidates(self, gid) ==
    {i \in 1..Len(self.streams_by_gid) :
        /\ self.streams_by_gid[i].stream_id = split_gid(gid)[3]
        /\ self.streams_by_gid[i].child = split_gid(gid)[1]}

\* _alias_git that takes the first of several candidates
alias_git_first_candidate(self, gid) ==
    LET cand == candidates(self, gid)
    IN IF Cardinality(cand) >= 1
       THEN LET c == self.streams_by_gid[CHOOSE i \in cand :
                                            \A j \in cand : i <= j]
            IN [gid  |-> c.gid,
                self |-> [self EXCEPT !.gid_by_alias =
                            [g \in DOMAIN self.gid_by_alias \cup {gid} |->
                                IF g = gid THEN c.gid
                                ELSE self.gid_by_alias[g]]],
                log  |-> "attached"]
       ELSE [gid |-> None, self |-> self, log |-> "unknown"]

\* _alias_git: returns the gid found (None otherwise), the collector with
\* the alias stored, and the line logged
alias_git(self, gid) ==
    LET cand == candidates(self, gid)
    IN IF Cardinality(cand) = 1
       THEN LET c == self.streams_by_gid[CHOOSE i \in cand : TRUE]
            IN [gid  |-> c.gid,
                self |-> [self EXCEPT !.gid_by_alias =
                            [g \in DOMAIN self.gid_by_alias \cup {gid} |->
                                IF g = gid THEN c.gid
                                ELSE self.gid_by_alias[g]]],
                log  |-> "attached"]
       ELSE [gid  |-> None,
             self |-> self,
             log  |-> IF Cardinality(cand) = 0 THEN "unknown"
                      ELSE "possible matches, ignored"]

\* _determine_gid that leaves the Alias Table aside for a creating rule
determine_gid_creating_unaliased(self, gid, m) ==
    IF gid \notin gids(self) /\ ~m.creating
    THEN IF gid \in DOMAIN self.gid_by_alias
         THEN [gid |-> self.gid_by_alias[gid], self |-> self, log |-> ""]
         ELSE IF m.aliasing
              THEN LET a == alias_git(self, gid)
                   IN IF a.gid # None
                      THEN a
                      ELSE [gid |-> gid, self |-> a.self, log |-> a.log]
              ELSE [gid |-> gid, self |-> self, log |-> ""]
    ELSE [gid |-> gid, self |-> self, log |-> ""]

\* _determine_gid that searches for candidates before it looks into the
\* Alias Table
determine_gid_search_first(self, gid, m) ==
    IF gid \notin gids(self)
    THEN IF m.aliasing
         THEN LET a == alias_git(self, gid)
              IN IF a.gid # None
                 THEN a
                 ELSE [gid |-> gid, self |-> a.self, log |-> a.log]
         ELSE IF gid \in DOMAIN self.gid_by_alias
              THEN [gid |-> self.gid_by_alias[gid], self |-> self, log |-> ""]
              ELSE [gid |-> gid, self |-> self, log |-> ""]
    ELSE [gid |-> gid, self |-> self, log |-> ""]

determine_gid(self, gid, m) ==
    IF gid \notin gids(self)
    THEN IF gid \in DOMAIN self.gid_by_alias
         THEN [gid |-> self.gid_by_alias[gid], self |-> self, log |-> ""]
         ELSE IF m.aliasing
              THEN LET a == alias_git(self, gid)
                   IN IF a.gid # None
                      THEN a
                      ELSE [gid |-> gid, self |-> a.self, log |-> a.log]
              ELSE [gid |-> gid, self |-> self, log |-> ""]
    ELSE [gid |-> gid, self |-> self, log |-> ""]

RECURSIVE any_match(_, _, _)
any_match(patterns, gid, i) ==
    IF i > Len(patterns) THEN FALSE
    ELSE IF re_match(patterns[i], gid, TRUE) THEN TRUE
    ELSE any_match(patterns, gid, i + 1)

\* the loop of _is_interesting giving up at the first pattern that does not
\* match
RECURSIVE every_match(_, _, _)
every_match(patterns, gid, i) ==
    IF i > Len(patterns) THEN TRUE
    ELSE IF ~re_match(patterns[i], gid, TRUE) THEN FALSE
    ELSE every_match(patterns, gid, i + 1)

is_interesting_every_pattern(self, gid) ==
    IF Len(self.for_streams) > 0
    THEN every_match(self.for_streams, gid, 1)
    ELSE TRUE

is_interesting(self, gid) ==
    IF Len(self.for_streams) > 0
    THEN any_match(self.for_streams, gid, 1)
    ELSE TRUE

\* the registry update with a creating rule that registers a new stream
\* without looking for an existing one
record_event_always_creates(self, gid, m, e) ==
    IF m.creating
    THEN [self EXCEPT !.streams_by_gid =
            Append(@, add_event(H2StreamEvents(gid), m.event, e))]
    ELSE IF gid \in gids(self)
    THEN [self EXCEPT !.streams_by_gid =
            [i \in 1..Len(self.streams_by_gid) |->
                IF self.streams_by_gid[i].gid = gid
                THEN add_event(self.streams_by_gid[i], m.event, e)
                ELSE self.streams_by_gid[i]]]
    ELSE self

\* the registry update of observe for the identity resolved: the event is
\* added to the stream of that identity, which a creating rule creates when
\* it does not exist yet
record_event(self, gid, m, e) ==
    IF gid \in gids(self)
    THEN [self EXCEPT !.streams_by_gid =
            [i \in 1..Len(self.streams_by_gid) |->
                IF self.streams_by_gid[i].gid = gid
                THEN add_event(self.streams_by_gid[i], m.event, e)
                ELSE self.streams_by_gid[i]]]
    ELSE IF m.creating
    THEN [self EXCEPT !.streams_by_gid =
            Append(@, add_event(H2StreamEvents(gid), m.event, e))]
    ELSE self

\* the body of observe's loop recording only what passes the filter
observe_match_filtered(self, m, e) ==
    LET d == determine_gid(self, match(m, e), m)
        s2 == IF is_interesting(self, d.gid)
              THEN record_event(d.self, d.gid, m, e)
              ELSE d.self
    IN [self |-> s2, rv |-> is_interesting(s2, d.gid), gid |-> d.gid,
        log |-> d.log]

\* the body of observe's loop for the first rule that matches: the collector
\* afterwards, the value returned, the identity resolved and the line logged
observe_match(self, m, e) ==
    LET d == determine_gid(self, match(m, e), m)
        s2 == record_event(d.self, d.gid, m, e)
    IN [self |-> s2, rv |-> is_interesting(s2, d.gid), gid |-> d.gid,
        log |-> d.log]

\* observe's loop over the rules: the position of the first rule that
\* matches the record, 0 when none does
RECURSIVE first_match(_, _, _)
first_match(matcher, e, i) ==
    IF i > Len(matcher) THEN 0
    ELSE IF match(matcher[i], e) # None THEN i
    ELSE first_match(matcher, e, i + 1)

\* observe that treats every rule as a creating one
observe_registers_unknown(self, e) ==
    IF e.module # "http2"
    THEN [self |-> self, rv |-> FALSE, gid |-> None, log |-> ""]
    ELSE LET i == first_match(self.matcher, e, 1)
         IN IF i = 0
            THEN [self |-> self, rv |-> FALSE, gid |-> None, log |-> ""]
            ELSE observe_match(self,
                               [self.matcher[i] EXCEPT !.creating = TRUE], e)

observe(self, e) ==
    IF e.module # "http2"
    THEN [self |-> self, rv |-> FALSE, gid |-> None, log |-> ""]
    ELSE LET i == first_match(self.matcher, e, 1)
         IN IF i = 0
            THEN [self |-> self, rv |-> FALSE, gid |-> None, log |-> ""]
            ELSE observe_match(self, self.matcher[i], e)

\* an ascending sort that puts elements with equal keys in reverse order
sorted_ties_reversed(seq, keys) ==
    LET pos(i) == Cardinality({j \in 1..Len(seq) :
                     \/ keys[j] < keys[i]
                     \/ (keys[j] = keys[i] /\ j >= i)})
    IN [p \in 1..Len(seq) |-> seq[CHOOSE i \in 1..Len(seq) : pos(i) = p]]

\* sorted(seq, key=...): the stable ascending sort of seq, keys[i] being the
\* key of seq[i]; an element goes behind those with a smaller key and those
\* with an equal key that precede it
sorted(seq, keys) ==
    LET pos(i) == Cardinality({j \in 1..Len(seq) :
                     \/ keys[j] < keys[i]
                     \/ (keys[j] = keys[i] /\ j <= i)})
    IN [p \in 1..Len(seq) |-> seq[CHOOSE i \in 1..Len(seq) : pos(i) = p]]

created_timedelta(s) == event(s, "created").timedelta

get_streams(self) ==
    LET interesting(s) == is_interesting(self, s.gid)
        streams == SelectSeq(self.streams_by_gid, interesting)
    IN sorted(streams,
              [i \in 1..Len(streams) |-> created_timedelta(streams[i])])

all_streams(self) ==
    sorted(self.streams_by_gid,
           [i \in 1..Len(self.streams_by_gid) |->
               created_timedelta(self.streams_by_gid[i])])

\* ------------------------------------------------------ H2WorkerStatistics
\* a stream as add_streams reads it: started and ended are None or an entry
H2StreamStats(started, ended) == [started |-> started, ended |-> ended]

\* H2WorkerChange (the entry it also keeps is the one its time comes from)
H2WorkerChange(t, change) == [timedelta |-> t, change |-> change]

RECURSIVE append_changes(_, _, _)
append_changes(chg, strms, i) ==
    IF i > Len(strms) THEN chg
    ELSE LET s == strms[i]
             c1 == IF s.started # None
                   THEN Append(chg, H2WorkerChange(s.started.timedelta, 1))
                   ELSE chg
             c2 == IF s.ended # None
                   THEN Append(c1, H2WorkerChange(s.ended.timedelta, -1))
                   ELSE c1
         IN append_changes(c2, strms, i + 1)

\* add_streams: the new value of _changes
add_streams(chg, strms) ==
    LET all == append_changes(chg, strms, 1)
    IN sorted(all, [i \in 1..Len(all) |-> all[i].timedelta])

\* in_use_at that leaves out the changes at t itself
in_use_at_before(chg, t) ==
    LET RECURSIVE sum(_)
        sum(i) == IF i = 0 THEN 0
                  ELSE (IF chg[i].timedelta < t THEN chg[i].change ELSE 0)
                       + sum(i - 1)
    IN sum(Len(chg))

in_use_at(chg, t) ==
    LET RECURSIVE sum(_)
        sum(i) == IF i = 0 THEN 0
                  ELSE (IF chg[i].timedelta <= t THEN chg[i].change ELSE 0)
                       + sum(i - 1)
    IN sum(Len(chg))

\* ----------------------------------------------------------- httpd/log.py
\* A line of the log file is abstracted to whether HttpdLog.RE_LINE matches
\* it and, if so, the text of its timestamp group: its format, its month
\* name and the instant it denotes.
ABR_MONTH_NAME ==
    {"jan", "feb", "mar", "apr", "may", "jun",
     "jul", "aug", "sep", "oct", "nov", "dec"}

\* the outcome of a call: a value, or an exception that was raised
Return(v) == [raised |-> FALSE, value |-> v]

Raise == [raised |-> TRUE, value |-> None]

\* HttpTimestampParser.parse that takes any text for the instant 0
parse_accepts_any(ts) ==
    IF ts.format = "iso" THEN Return(ts.instant)
    ELSE IF ts.format = "legacy" /\ ts.mname \in ABR_MONTH_NAME
    THEN Return(ts.instant)
    ELSE Return(0)

\* HttpTimestampParser.parse: fromisoformat, else _ts_pattern with a month
\* name looked up in ABR_MONTH_NAME, else ValueError
parse(ts) ==
    IF ts.format = "iso" THEN Return(ts.instant)
    ELSE IF ts.format # "legacy" THEN Raise
    ELSE IF ts.mname \notin ABR_MONTH_NAME THEN Raise
    ELSE Return(ts.instant)

\* HttpdLogParser._convert_timestamp: the timestamp group is a str
convert_timestamp(props) == parse(props.timestamp)

HttpdLogEntry(props, timestamp, timedelta) ==
    [module |-> props.module, timestamp |-> timestamp,
     timedelta |-> timedelta]

\* HttpdLogParser.parse_line that raises on a line its pattern does not match
parse_line_raises_unmatched(line, started) ==
    IF ~line.matches THEN [started |-> started] @@ Raise
    ELSE LET ts == convert_timestamp(line)
         IN IF ts.raised THEN [started |-> started] @@ Raise
            ELSE IF started # None
            THEN [started |-> started] @@
                 Return(HttpdLogEntry(line, ts.value, ts.value - started[1]))
            ELSE [started |-> <<ts.value>>] @@
                 Return(HttpdLogEntry(line, ts.value, 0))

\* HttpdLogParser.parse_line: the entry (or None, or an exception) and the
\* new value of self.started; started is None or <<the first timestamp>>
parse_line(line, started) ==
    IF ~line.matches THEN [started |-> started] @@ Return(None)
    ELSE LET ts == convert_timestamp(line)
         IN IF ts.raised THEN [started |-> started] @@ Raise
            ELSE IF started # None
            THEN [started |-> started] @@
                 Return(HttpdLogEntry(line, ts.value, ts.value - started[1]))
            ELSE [started |-> <<ts.value>>] @@
                 Return(HttpdLogEntry(line, ts.value, 0))

\* HttpdLogEntryIterator.__next__ on the file ls read up to position pos:
\* the next entry, StopIteration at the end of the file, or the exception
\* of parse_line; lines that parse_line returns None for are passed over
RECURSIVE next_entry(_, _, _)
next_entry(ls, pos, started) ==
    IF pos = Len(ls)
    THEN [kind |-> "StopIteration", entry |-> None, pos |-> pos,
          started |-> started]
    ELSE LET r == parse_line(ls[pos + 1], started)
         IN IF r.raised
            THEN [kind |-> "Exception", entry |-> None, pos |-> pos + 1,
                  started |-> r.started]
            ELSE IF r.value = None
            THEN next_entry(ls, pos + 1, r.started)
            ELSE [kind |-> "entry", entry |-> r.value, pos |-> pos + 1,
                  started |-> r.started]

\* ---------------------------------------------------- H2StreamStatistics
\* f"{e.pid}:{sid}"
stats_global_id(sid, e) == e.pid \o <<":">> \o sid

\* re.match(r'.+-(\d+)', sid): the number behind the last '-', as a sequence
\* of one integer; None when there is none
h2id(sid) ==
    LET parts == split(sid)
    IN IF /\ Len(parts) >= 2
          /\ IsDigits(parts[Len(parts)])
          /\ Len(sid) - Len(parts[Len(parts)]) >= 2
       THEN <<int(parts[Len(parts)])>>
       ELSE None

\* H2StreamStats.__init__
H2StreamStats_init(gid, e) ==
    [gid |-> gid, gid_alias |-> gid, h2id |-> h2id(gid), pid |-> e.pid,
     created |-> e, started |-> None, ended |-> None, cleanup |-> None,
     destroyed |-> None, reset |-> None]

set_gid_alias(s, gid) == [s EXCEPT !.gid_alias = gid]

set_started(s, e) == [s EXCEPT !.started = e]

set_ended(s, e) == [s EXCEPT !.ended = e]

set_cleanup(s, e) == [s EXCEPT !.cleanup = e]

set_destroy(s, e) == [s EXCEPT !.destroyed = e]

set_reset(s, e) == [s EXCEPT !.reset = e]

\* which of the RE_STREAM_* patterns of H2StreamStatistics matches a message
\* of the given shape; the code tries them in this order: created, destroy,
\* started, ended, cleanup, reset.  These patterns want an identity of two
\* numbers where those of the collector want three, so no text matches a
\* pattern of both: the shapes of the one are not shapes of the other.
StatsPattern(shape) ==
    CASE shape = "sid_created"      -> "RE_STREAM_CREATED"
      [] shape = "sid_destroy"      -> "RE_STREAM_DESTROY"
      [] shape = "task_process"     -> "RE_STREAM_STARTED"
      [] shape = "sid_request_done" -> "RE_STREAM_ENDED"
      [] shape = "sid_cleanup"      -> "RE_STREAM_CLEANUP"
      [] shape = "sid_rst_stream"   -> "RE_STREAM_RESET"
      [] OTHER                      -> "none"

\* stream_by_gid is a dict in insertion order, kept as the sequence of its
\* values: its keys, and the position of a key
stats_gids(sbg) == {sbg[i].gid : i \in 1..Len(sbg)}

stats_index(sbg, gid) == CHOOSE i \in 1..Len(sbg) : sbg[i].gid = gid

\* the body of the loop of add_events for one entry: the new stream_by_gid
add_events_entry(sbg, e) ==
    LET p == StatsPattern(e.message.shape)
        gid == stats_global_id(e.message.stream, e)
        known == gid \in stats_gids(sbg)
        at == stats_index(sbg, gid)
    IN IF e.module # "http2" \/ p = "none" THEN sbg
       ELSE IF p = "RE_STREAM_CREATED"
       THEN IF known THEN sbg ELSE Append(sbg, H2StreamStats_init(gid, e))
       ELSE IF p = "RE_STREAM_DESTROY"
       THEN IF known THEN [sbg EXCEPT ![at] = set_destroy(@, e)] ELSE sbg
       ELSE IF p = "RE_STREAM_STARTED"
       THEN IF known THEN [sbg EXCEPT ![at] = set_started(@, e)]
            ELSE IF h2id(gid) = None THEN sbg
            ELSE LET cand == {i \in 1..Len(sbg) :
                                /\ sbg[i].h2id = h2id(gid)
                                /\ e.pid = sbg[i].pid}
                 IN IF Cardinality(cand) = 1
                    THEN LET c == CHOOSE i \in cand : TRUE
                         IN [sbg EXCEPT
                               ![c] = set_started(set_gid_alias(@, gid), e)]
                    ELSE sbg
       ELSE IF p = "RE_STREAM_ENDED"
       THEN IF known THEN [sbg EXCEPT ![at] = set_ended(@, e)]
            ELSE LET cand == {i \in 1..Len(sbg) : sbg[i].gid_alias = gid}
                 IN IF Cardinality(cand) = 1
                    THEN LET c == CHOOSE i \in cand : TRUE
                         IN [sbg EXCEPT ![c] = set_ended(@, e)]
                    ELSE sbg
       ELSE IF p = "RE_STREAM_CLEANUP"
       THEN IF known THEN [sbg EXCEPT ![at] = set_cleanup(@, e)] ELSE sbg
       ELSE IF known THEN [sbg EXCEPT ![at] = set_reset(@, e)] ELSE sbg

\* the loop of add_events over the entries from position i on
RECURSIVE add_events_loop(_, _, _)
add_events_loop(sbg, es, i) ==
    IF i > Len(es) THEN sbg
    ELSE add_events_loop(add_events_entry(sbg, es[i]), es, i + 1)

\* self.streams of add_events: the streams sorted by their created time
stats_streams(sbg) ==
    sorted(sbg, [i \in 1..Len(sbg) |-> sbg[i].created.timedelta])

\* ------------------------------------------------------------------ inputs
\* the (child, session, stream) digit strings that log messages carry
InputIds ==
    { << <<"1">>, <<"2">>, <<"7">> >>,
      << <<"1">>, <<"3">>, <<"7">> >>,
      << <<"1">>, <<"9">>, <<"7">> >>,
      << <<"2">>, <<"9">>, <<"7">> >>,
      << <<"1">>, <<"9">>, <<"0">> >> }

\* the message shapes that records are drawn from: one for each kind of rule
\* (creating, plain, aliasing, matched by two rules, frame only, without a
\* stream group) and one that no rule matches
StreamShapes ==
    {"created", "c2_process", "submit_response", "sent_headers_eos",
     "stream_frame"}

SessionShapes == {"session_cleanup"}

Messages ==
    {[shape |-> sh, child |-> id[1], session |-> id[2], stream |-> id[3]] :
        sh \in StreamShapes, id \in InputIds}
    \cup
    {[shape |-> sh, child |-> id[1], session |-> id[2], stream |-> <<>>] :
        sh \in SessionShapes, id \in InputIds}
    \cup
    {[shape |-> "other", child |-> <<>>, session |-> <<>>, stream |-> <<>>]}

\* HttpdLogEntry: the properties the collector and the reports read
Records ==
    {[module |-> "http2", message |-> m, timedelta |-> t] :
        m \in Messages, t \in 0..MaxTime}
    \cup
    {[module |-> "core", message |-> m, timedelta |-> 0] :
        m \in {x \in Messages : x.shape = "created"}}

\* the for_streams argument of the collector
NoFilter == [is_none |-> TRUE, items |-> <<>>]

FilterOf(items) == [is_none |-> FALSE, items |-> items]

\* filters of every form: a triple, a pair, a child prefix, a bare number,
\* two patterns, the empty list and no list
FilterArgs ==
    { NoFilter,
      FilterOf(<<>>),
      FilterOf(<< <<"1", "-", "2", "-", "7">> >>),
      FilterOf(<< <<"1", "-", "2">> >>),
      FilterOf(<< <<"2", "-">> >>),
      FilterOf(<< <<"7">> >>),
      FilterOf(<< <<"1", "-", "2">>, <<"7">> >>) }

\* identities that tell the forms apart
FilterIds ==
    { << <<"1">>, <<"2">>, <<"7">> >>,
      << <<"1">>, <<"9">>, <<"7">> >>,
      << <<"7">>, <<"1">>, <<"2">> >>,
      << <<"2">>, <<"9">>, <<"1", "7">> >> }

FilterRecords ==
    {[module |-> "http2",
      message |-> [shape |-> sh, child |-> id[1], session |-> id[2],
                   stream |-> id[3]],
      timedelta |-> t] :
        sh \in {"created", "c2_process", "submit_response"},
        id \in FilterIds, t \in 0..MaxTime}

\* the entries and the streams of the timeline
Entries == {[timedelta |-> t] : t \in 0..MaxInstant}

StreamStats ==
    {H2StreamStats(st, en) : st \in Entries \cup {None},
                             en \in Entries \cup {None}}

RECURSIVE SeqsUpTo(_, _)
SeqsUpTo(S, n) ==
    IF n = 0 THEN {<<>>}
    ELSE SeqsUpTo(S, n - 1) \cup
         {Append(q, x) : q \in {p \in SeqsUpTo(S, n - 1) : Len(p) = n - 1},
                         x \in S}

\* the timestamp texts and the lines of a log file
Timestamps ==
    {[format |-> f, mname |-> "nov", instant |-> t] :
        f \in {"iso", "legacy"}, t \in 0..MaxTime}
    \cup {[format |-> "legacy", mname |-> "nop", instant |-> 0],
          [format |-> "unrecognized", mname |-> "", instant |-> 0]}

Lines ==
    {[matches |-> TRUE, module |-> "http2", timestamp |-> ts] :
        ts \in Timestamps}
    \cup {[matches |-> FALSE]}


\* the entries of a log handed to add_events: one process, two sessions
\* with a stream 7 each, and the stream 0 of the first session
Sid27 == <<"2", "-", "7">>

Sid97 == <<"9", "-", "7">>

Sid20 == <<"2", "-", "0">>

StatsEntry(module, shape, sid, t) ==
    [module |-> module, pid |-> <<"1">>,
     message |-> [shape |-> shape, stream |-> sid], timedelta |-> t]

StatsEntries ==
    {StatsEntry("http2", sh, Sid27, t) :
        sh \in {"sid_created", "task_process", "sid_request_done"},
        t \in 0..MaxTime}
    \cup {StatsEntry("http2", sh, Sid97, 0) :
        sh \in {"sid_created", "task_process", "sid_request_done"}}
    \cup {StatsEntry("http2", sh, Sid20, 0) :
        sh \in {"sid_created", "task_process"}}
    \cup {StatsEntry("http2", sh, Sid27, 0) :
        sh \in {"sid_cleanup", "sid_destroy", "sid_rst_stream"}}
    \cup {StatsEntry("core", "sid_created", Sid27, 0)}

\* the entries of a log whose elapsed times do not decrease, read both by a
\* collector and by add_events: records in the collector's format (a stream
\* created, and answered under another session) and in the format of
\* H2StreamStatistics (a stream created, and started under another session)
OrderedEntries ==
    {e \in Records :
        /\ e.module = "http2"
        /\ \/ /\ e.message.shape = "created"
              /\ <<e.message.child, e.message.session, e.message.stream>>
                    = << <<"1">>, <<"2">>, <<"7">> >>
           \/ /\ e.message.shape = "submit_response"
              /\ <<e.message.child, e.message.session, e.message.stream>>
                    = << <<"1">>, <<"9">>, <<"7">> >>}
    \cup {StatsEntry("http2", "sid_created", Sid27, t) : t \in 0..MaxTime}
    \cup {StatsEntry("http2", "task_process", Sid97, t) : t \in 0..MaxTime}

NonDecreasing(es) ==
    \A i, j \in 1..Len(es) : i <= j => es[i].timedelta <= es[j].timedelta

\* ------------------------------------------------------------------- state
VARIABLES
    for_streams, \* the for_streams argument the collector was built with
    collector,   \* the H2StreamEventsCollector
    reference,   \* a second collector, built like the first but without a
                 \* filter, that observes the same records
    streams,     \* the streams handed to H2WorkerStatistics.add_streams
    changes,     \* H2WorkerStatistics._changes
    builds,      \* calls of add_streams so far
    lines,       \* the lines of the log file
    fd,          \* HttpdLogEntryIterator.fd: lines read, and whether closed
    parser,      \* the HttpdLogParser
    delivered,   \* the entries the iteration of main has been given
    rv,          \* the exit status of main
    pc,          \* where main is: in its loop, or exited
    log_entries,   \* the entries handed to H2StreamStatistics.add_events
    stream_by_gid, \* H2StreamStatistics.stream_by_gid
    observed       \* entries of log_entries the collector has observed

collectorVars == <<for_streams, collector, reference>>

timelineVars == <<streams, changes, builds>>

logVars == <<lines, fd, parser, delivered, rv, pc>>

statsVars == <<log_entries, stream_by_gid, observed>>

vars == <<collectorVars, timelineVars, logVars, statsVars>>


num_events(self) ==
    LET RECURSIVE sum(_)
        sum(i) ==
            IF i = 0 THEN 0
            ELSE LET ev == self.streams_by_gid[i].events
                     RECURSIVE cnt(_)
                     cnt(ns) ==
                        IF ns = {} THEN 0
                        ELSE LET n == CHOOSE x \in ns : TRUE
                             IN Len(ev[n]) + cnt(ns \ {n})
                 IN cnt(DOMAIN ev) + sum(i - 1)
    IN sum(Len(self.streams_by_gid))

\* records are observed while fewer than MaxEvents events are stored
Observable == num_events(collector) < MaxEvents

InitCollector(filters) ==
    /\ for_streams \in filters
    /\ \E wf \in BOOLEAN :
          /\ collector = Collector(wf, for_streams)
          /\ reference = Collector(wf, NoFilter)

NoTimeline ==
    /\ streams = <<>>
    /\ changes = <<>>
    /\ builds = 0

\* main before it opens a log
NoLog ==
    /\ lines = <<>>
    /\ fd = [pos |-> 0, closed |-> FALSE]
    /\ parser = [started |-> None]
    /\ delivered = <<>>
    /\ rv = 0
    /\ pc = "main"

\* no H2StreamStatistics in use
NoStats ==
    /\ log_entries = <<>>
    /\ stream_by_gid = <<>>
    /\ observed = 0

Init ==
    /\ InitCollector({NoFilter})
    /\ NoTimeline
    /\ NoLog
    /\ NoStats

\* one record of the log is observed by both collectors
Observe(e) ==
    /\ Observable
    /\ collector' = observe(collector, e).self
    /\ reference' = observe(reference, e).self
    /\ UNCHANGED <<for_streams, timelineVars, logVars, statsVars>>

Next == \E e \in Records : Observe(e)

Spec == Init /\ [][Next]_vars

\* the collector built with a filter, observing records that tell the
\* filters apart
InitFilter ==
    /\ InitCollector(FilterArgs)
    /\ NoTimeline
    /\ NoLog
    /\ NoStats

NextFilter == \E e \in FilterRecords : Observe(e)

SpecFilter == InitFilter /\ [][NextFilter]_vars

\* the worker statistics, built from a list of streams
InitTimeline ==
    /\ InitCollector({NoFilter})
    /\ collector.matcher = LIFETIME_MATCHER
    /\ streams \in SeqsUpTo(StreamStats, MaxStreams)
    /\ changes = <<>>
    /\ builds = 0
    /\ NoLog
    /\ NoStats

AddStreams ==
    /\ builds < MaxBuilds
    /\ changes' = add_streams(changes, streams)
    /\ builds' = builds + 1
    /\ UNCHANGED <<collectorVars, streams, logVars, statsVars>>

NextTimeline == AddStreams

SpecTimeline == InitTimeline /\ [][NextTimeline]_vars

\* main reading a log file: HttpdLog is constructed and its iterator opened
InitLog ==
    /\ InitCollector({NoFilter})
    /\ collector.matcher = LIFETIME_MATCHER
    /\ NoTimeline
    /\ lines \in SeqsUpTo(Lines, MaxLines)
    /\ fd = [pos |-> 0, closed |-> FALSE]
    /\ parser = [started |-> None]
    /\ delivered = <<>>
    /\ rv = 0
    /\ pc = "for"
    /\ NoStats

\* one turn of the for loop of main: __next__ yields an entry, which the
\* loop body is given; or raises StopIteration, which ends the loop and
\* main with rv as it is; or raises the exception of parse_line, which the
\* except clause of main turns into rv = 1
Iterate ==
    /\ pc = "for"
    /\ LET r == next_entry(lines, fd.pos, parser.started)
       IN /\ fd' = [pos |-> r.pos,
                    closed |-> (fd.closed \/ r.kind = "StopIteration")]
          /\ parser' = [started |-> r.started]
          /\ delivered' = IF r.kind = "entry"
                          THEN Append(delivered, r.entry) ELSE delivered
          /\ rv' = IF r.kind = "Exception" THEN 1 ELSE rv
          /\ pc' = IF r.kind = "entry" THEN "for" ELSE "exit"
    /\ UNCHANGED <<collectorVars, timelineVars, lines, statsVars>>

NextLog == Iterate

SpecLog == InitLog /\ [][NextLog]_vars

\* the loop of main keeps running until it ends
SpecLogFair == SpecLog /\ WF_vars(Iterate)

\* a new H2StreamStatistics and the log it is to aggregate
InitStats ==
    /\ InitCollector({NoFilter})
    /\ collector.matcher = LIFETIME_MATCHER
    /\ NoTimeline
    /\ NoLog
    /\ log_entries \in SeqsUpTo(StatsEntries, MaxLog)
    /\ stream_by_gid = <<>>
    /\ observed = 0

\* add_events(log_entries): every entry is processed, then self.streams is
\* sorted anew and handed to worker_stats.add_streams
AddEvents ==
    /\ builds < MaxBuilds
    /\ stream_by_gid' = add_events_loop(stream_by_gid, log_entries, 1)
    /\ streams' = stats_streams(stream_by_gid')
    /\ changes' = add_streams(changes, streams')
    /\ builds' = builds + 1
    /\ UNCHANGED <<collectorVars, logVars, log_entries, observed>>

NextStats == AddEvents

SpecStats == InitStats /\ [][NextStats]_vars

\* a log in time order, a collector that observes it entry by entry and an
\* H2StreamStatistics that aggregates it
InitOrdered ==
    /\ for_streams = NoFilter
    /\ collector = Collector(FALSE, for_streams)
    /\ reference = Collector(FALSE, NoFilter)
    /\ NoTimeline
    /\ NoLog
    /\ log_entries \in {es \in SeqsUpTo(OrderedEntries, MaxOrdered) :
                           NonDecreasing(es)}
    /\ stream_by_gid = <<>>
    /\ observed = 0

\* the collector observes the next entry of the log
ObserveNext ==
    /\ observed < Len(log_entries)
    /\ collector' = observe(collector, log_entries[observed + 1]).self
    /\ reference' = observe(reference, log_entries[observed + 1]).self
    /\ observed' = observed + 1
    /\ UNCHANGED <<for_streams, timelineVars, logVars, log_entries,
                   stream_by_gid>>

NextOrdered == ObserveNext \/ AddEvents

SpecOrdered == InitOrdered /\ [][NextOrdered]_vars

\* ------------------------------------------------------------ the claims
\* the rule observe applies to a record and the raw identity it extracts
\* (None when the record is skipped)
rule_of(self, e) == self.matcher[first_match(self.matcher, e, 1)]

raw_gid(self, e) ==
    IF e.module # "http2" \/ first_match(self.matcher, e, 1) = 0
    THEN None
    ELSE match(rule_of(self, e), e)

stream_at(self, i) == self.streams_by_gid[i]

\* C1: every stream of the registry, and so every element of all_streams(),
\* has a 'created' event, and it is the record that created the stream: a
\* record of the creating rule bearing the stream's identity.
C1_CreatedNeverAbsent ==
    /\ \A i \in 1..Len(collector.streams_by_gid) :
          LET s == stream_at(collector, i)
          IN /\ event(s, "created") # None
             /\ match(LIFETIME_MATCHER[1], event(s, "created")) = s.gid
    /\ \A j \in 1..Len(all_streams(collector)) :
          event(all_streams(collector)[j], "created") # None

C1_Witness ==
    /\ Len(collector.streams_by_gid) >= 2
    /\ \E i \in 1..Len(collector.streams_by_gid) :
          "started" \in DOMAIN stream_at(collector, i).events

\* C2: an Alias Table entry is never changed or removed, and in every state
\* every record bearing an aliased raw identity X resolves to the identity Y
\* the table holds for X, whatever rule the record matches.
C2_AliasStable ==
    [][ /\ \A x \in DOMAIN collector.gid_by_alias :
              /\ x \in DOMAIN collector'.gid_by_alias
              /\ collector'.gid_by_alias[x] = collector.gid_by_alias[x]
        /\ \A x \in DOMAIN collector'.gid_by_alias :
              /\ collector'.gid_by_alias[x] # x
              /\ \A e \in Records :
                    raw_gid(collector', e) = x =>
                       observe(collector', e).gid = collector'.gid_by_alias[x]
      ]_vars

\* an aliased identity X whose stream Y holds a 'started' record bearing X:
\* a record of a rule that is not aliasing was resolved through the table
C2_Witness ==
    \E x \in DOMAIN collector.gid_by_alias :
        LET y == stream_of(collector, collector.gid_by_alias[x])
        IN /\ "started" \in DOMAIN y.events
           /\ raw_gid(collector, event(y, "started")) = x
           /\ Len(collector.streams_by_gid) >= 1

\* C3: Scenario B.  When stream 1-2-7 is the only stream of child 1 with
\* stream number 7 and no stream 1-9-7 exists, a 'started' record bearing
\* 1-9-7 is recorded as a 'started' event of stream 1-2-7, and a record
\* bearing 1-9-7 observed after it resolves to 1-2-7 again.
Gid197 == <<"1", "-", "9", "-", "7">>

Gid127 == <<"1", "-", "2", "-", "7">>

C3_ScenarioB ==
    \A e \in Records :
        ( /\ Observable
          /\ e.module = "http2"
          /\ e.message.shape = "c2_process"
          /\ raw_gid(collector, e) = Gid197
          /\ Gid197 \notin gids(collector)
          /\ Gid127 \in gids(collector)
          /\ Cardinality(candidates(collector, Gid197)) = 1 )
        => LET r == observe(collector, e)
               s == stream_of(r.self, Gid127)
           IN /\ r.gid = Gid127
              /\ "started" \in DOMAIN s.events
              /\ s.events["started"][Len(s.events["started"])] = e
              /\ \A e2 \in Records :
                    raw_gid(r.self, e2) = Gid197 =>
                       observe(r.self, e2).gid = Gid127

\* C4: an aliasing event for an unknown raw identity with two or more
\* candidates is discarded: the registry and the Alias Table stay as they
\* are (so that the records after it are processed as if it had not come).
Ambiguous(self, e) ==
    /\ raw_gid(self, e) # None
    /\ rule_of(self, e).aliasing
    /\ raw_gid(self, e) \notin gids(self)
    /\ raw_gid(self, e) \notin DOMAIN self.gid_by_alias
    /\ Cardinality(candidates(self, raw_gid(self, e))) >= 2

C4_AmbiguousDiscarded ==
    \A e \in Records :
        (Observable /\ Ambiguous(collector, e)) =>
            /\ observe(collector, e).self = collector
            /\ observe(collector, e).gid = raw_gid(collector, e)

C4_Witness ==
    \E e \in Records :
        /\ Observable
        /\ Ambiguous(collector, e)
        /\ observe(collector, e).log = "possible matches, ignored"

\* C5: once event(name) of a stream is not absent it stays the same record:
\* the stream stays in the registry and later records of that name are
\* appended behind what is stored.
IsPrefix(a, b) == Len(a) <= Len(b) /\ SubSeq(b, 1, Len(a)) = a

C5_FirstOccurrenceWins ==
    [][ \A i \in 1..Len(collector.streams_by_gid) :
           LET s == stream_at(collector, i)
           IN /\ i <= Len(collector'.streams_by_gid)
              /\ stream_at(collector', i).gid = s.gid
              /\ \A n \in DOMAIN s.events :
                    /\ n \in DOMAIN stream_at(collector', i).events
                    /\ event(stream_at(collector', i), n) = event(s, n)
                    /\ IsPrefix(s.events[n], stream_at(collector', i).events[n])
      ]_vars

\* a stream holding two different records under one name
C5_Witness ==
    \E i \in 1..Len(collector.streams_by_gid) :
        \E n \in DOMAIN stream_at(collector, i).events :
            LET h == stream_at(collector, i).events[n]
            IN Len(h) >= 2 /\ h[2] # h[1]

\* C6: observing a record twice in succession gives the same stream
\* identities, the same number of stream entities, the same Alias Table and
\* the same event(name) for every stream and name as observing it once.
first_events(self) ==
    [i \in 1..Len(self.streams_by_gid) |->
        [gid |-> stream_at(self, i).gid,
         first |-> [n \in DOMAIN stream_at(self, i).events |->
                       event(stream_at(self, i), n)]]]

C6_Idempotent ==
    \A e \in Records :
        Observable =>
            LET once == observe(collector, e).self
                twice == observe(once, e).self
            IN /\ gids(twice) = gids(once)
               /\ Len(twice.streams_by_gid) = Len(once.streams_by_gid)
               /\ Cardinality(gids(twice)) = Len(twice.streams_by_gid)
               /\ twice.gid_by_alias = once.gid_by_alias
               /\ first_events(twice) = first_events(once)

\* a 'created' record was observed twice and there is still one stream
C6_Witness ==
    /\ Len(collector.streams_by_gid) = 1
    /\ LET h == stream_at(collector, 1).events["created"]
       IN Len(h) >= 2 /\ h[2] = h[1]

\* C7 as stated: once the timeline is built from streams that all have
\* started <= ended, in_use_at(t) is the number of streams with
\* started <= t <= ended.
AllIntervals ==
    \A i \in 1..Len(streams) :
        /\ streams[i].started # None
        /\ streams[i].ended # None
        /\ streams[i].started.timedelta <= streams[i].ended.timedelta

C7_ClosedIntervals ==
    (builds = 1 /\ AllIntervals) =>
        \A t \in 0..MaxInstant :
            in_use_at(changes, t) =
                Cardinality({i \in 1..Len(streams) :
                    /\ streams[i].started.timedelta <= t
                    /\ t <= streams[i].ended.timedelta})

\* C7 as amended: ... in_use_at(t) is the number of streams with
\* started <= t < ended (a stream no longer counts at its ended time).
C7_HalfOpenIntervals ==
    (builds = 1 /\ AllIntervals) =>
        \A t \in 0..MaxInstant :
            in_use_at(changes, t) =
                Cardinality({i \in 1..Len(streams) :
                    /\ streams[i].started.timedelta <= t
                    /\ t < streams[i].ended.timedelta})

\* overlapping intervals, one of them with an interior point
C7_Witness ==
    /\ builds = 1
    /\ AllIntervals
    /\ Len(streams) >= 2
    /\ \E i \in 1..Len(streams) :
          streams[i].started.timedelta + 2 <= streams[i].ended.timedelta
    /\ \E t \in 0..MaxInstant : in_use_at(changes, t) >= 2

\* C8: get_streams() returns exactly the streams whose identity matches one
\* of the configured patterns, all streams when the filter is None or empty;
\* all_streams() returns every stream; get_streams() is within all_streams().
gids_of(seq) == {seq[i].gid : i \in 1..Len(seq)}

C8_FilterCorrect ==
    LET got == get_streams(collector)
        all == all_streams(collector)
    IN /\ gids_of(all) = gids(collector)
       /\ Len(all) = Len(collector.streams_by_gid)
       /\ Len(got) = Cardinality(gids_of(got))
       /\ gids_of(got) \subseteq gids_of(all)
       /\ gids_of(got) =
            IF for_streams.is_none \/ for_streams.items = <<>>
            THEN gids(collector)
            ELSE {g \in gids(collector) :
                    \E i \in 1..Len(for_streams.items) :
                        re_match(gid_pattern(for_streams.items[i]), g, TRUE)}

\* two patterns, a stream that only the second selects, one that none does
C8_Witness ==
    /\ Len(for_streams.items) = 2
    /\ \E g \in gids_of(get_streams(collector)) :
          ~re_match(gid_pattern(for_streams.items[1]), g, TRUE)
    /\ gids_of(get_streams(collector)) # gids(collector)

\* the form of a filter string and its components as written
filter_parts(f) == split(f)

IsTriple(f) ==
    Len(filter_parts(f)) = 3 /\ \A k \in 1..3 : IsDigits(filter_parts(f)[k])

IsPair(f) ==
    Len(filter_parts(f)) = 2 /\ \A k \in 1..2 : IsDigits(filter_parts(f)[k])

IsChildPrefix(f) ==
    /\ Len(filter_parts(f)) = 2
    /\ IsDigits(filter_parts(f)[1])
    /\ filter_parts(f)[2] = <<>>

IsNumber(f) == IsDigits(f)

OneFilter == ~for_streams.is_none /\ Len(for_streams.items) = 1

\* C9 as stated: a pattern "a-b" selects the streams whose session is a and
\* whose stream number is b; a triple that identity; "c-" the streams of
\* child c; "n" the streams with stream number n.
C9_PairIsSessionStream ==
    OneFilter =>
        LET f == for_streams.items[1]
            p == filter_parts(f)
        IN gids_of(get_streams(collector)) =
             {g \in gids(collector) :
                 \/ IsTriple(f) /\ g = f
                 \/ IsPair(f) /\ split(g)[2] = p[1] /\ split(g)[3] = p[2]
                 \/ IsChildPrefix(f) /\ split(g)[1] = p[1]
                 \/ IsNumber(f) /\ split(g)[3] = f}

\* C9 as amended: a pattern "a-b" selects the streams whose child is a and
\* whose session is b, whatever their stream number; the other forms as
\* stated.
C9_PairIsChildSession ==
    OneFilter =>
        LET f == for_streams.items[1]
            p == filter_parts(f)
        IN gids_of(get_streams(collector)) =
             {g \in gids(collector) :
                 \/ IsTriple(f) /\ g = f
                 \/ IsPair(f) /\ split(g)[1] = p[1] /\ split(g)[2] = p[2]
                 \/ IsChildPrefix(f) /\ split(g)[1] = p[1]
                 \/ IsNumber(f) /\ split(g)[3] = f}

\* the pair filter "1-2" with stream 1-2-7, which it selects, and stream
\* 7-1-2, which it does not
C9_Witness ==
    /\ OneFilter
    /\ IsPair(for_streams.items[1])
    /\ <<"7", "-", "1", "-", "2">> \in gids(collector)
    /\ gids_of(get_streams(collector)) = {Gid127}

\* C10: a collector with a filter and one without, observing the same
\* records, hold the same streams with the same events in the same order and
\* the same Alias Table, so all_streams() is the same.
C10_FilterDoesNotCollect ==
    /\ collector.streams_by_gid = reference.streams_by_gid
    /\ collector.gid_by_alias = reference.gid_by_alias
    /\ collector.matcher = reference.matcher
    /\ all_streams(collector) = all_streams(reference)

\* a filter that leaves out a stream holding events, one of them aliased
C10_Witness ==
    /\ collector.for_streams # None
    /\ reference.for_streams = None
    /\ DOMAIN collector.gid_by_alias # {}
    /\ \E i \in 1..Len(collector.streams_by_gid) :
          /\ ~is_interesting(collector, stream_at(collector, i).gid)
          /\ "response" \in DOMAIN stream_at(collector, i).events

\* the records of both collector specifications
AllRecords == Records \cup FilterRecords

\* whether an identity passes the collector's identity filter
passes_filter(gid) ==
    \/ for_streams.is_none
    \/ for_streams.items = <<>>
    \/ \E i \in 1..Len(for_streams.items) :
          re_match(gid_pattern(for_streams.items[i]), gid, TRUE)

\* C11: observe returns false for a record of another module or
\* one that no rule matches, and true only for a record whose event was
\* recorded on a stream that passes the filter.
C11_TrueOnlyIfRecorded ==
    \A e \in AllRecords :
        Observable =>
            LET r == observe(collector, e)
            IN /\ raw_gid(collector, e) = None => ~r.rv
               /\ r.rv => /\ r.self.streams_by_gid # collector.streams_by_gid
                          /\ r.gid \in gids(r.self)
                          /\ passes_filter(r.gid)


\* a line whose timestamp group is an ISO text or a legacy text with a
\* known month name, and a line that matches but whose timestamp is neither
Parseable(line) ==
    /\ line.matches
    /\ \/ line.timestamp.format = "iso"
       \/ /\ line.timestamp.format = "legacy"
          /\ line.timestamp.mname \in ABR_MONTH_NAME

BadTimestamp(line) == line.matches /\ ~Parseable(line)

\* the records of the lines of ls that parse, in input order, their elapsed
\* time counted from the first of them
records_of(ls) ==
    LET good == SelectSeq(ls, Parseable)
    IN [i \in 1..Len(good) |->
          [module |-> good[i].module,
           timestamp |-> good[i].timestamp.instant,
           timedelta |-> good[i].timestamp.instant
                         - good[1].timestamp.instant]]

\* C12: as long as no line read has a bad timestamp, the run has not failed
\* and has been given exactly the records of the lines read that parse, in
\* input order; it ends only at the end of the file; and it does end.
C12_Skipped ==
    (\A k \in 1..fd.pos : ~BadTimestamp(lines[k])) =>
        /\ rv = 0
        /\ delivered = records_of(SubSeq(lines, 1, fd.pos))
        /\ pc = "exit" => fd.pos = Len(lines) /\ fd.closed

C12_MalformedLineSkipped == []C12_Skipped /\ <>(pc = "exit")

\* a run that succeeded on a file with a record before and a record after a
\* line that is not a log line
C12_Witness ==
    /\ pc = "exit" /\ rv = 0
    /\ \E i, j, k \in 1..Len(lines) :
          /\ i < j /\ j < k
          /\ Parseable(lines[i]) /\ ~lines[j].matches /\ Parseable(lines[k])
    /\ Len(delivered) = 2

\* C13: the first line with a bad timestamp ends the run with status 1 at
\* that line: the records before it were delivered, none after it is, and
\* a run that ends with status 0 has met no such line.
C13_BadTimestampFatal ==
    /\ \A k \in 1..fd.pos :
          BadTimestamp(lines[k]) =>
              /\ fd.pos = k
              /\ pc = "exit" /\ rv = 1
              /\ delivered = records_of(SubSeq(lines, 1, k - 1))
    /\ pc = "exit" /\ rv = 0 =>
          \A k \in 1..Len(lines) : ~BadTimestamp(lines[k])

\* a failed run: a record was delivered, then a line with a bad timestamp
\* was met, and a line that parses was left unread
C13_Witness ==
    /\ pc = "exit" /\ rv = 1
    /\ Len(delivered) = 1
    /\ fd.pos = 2 /\ Len(lines) = 3
    /\ BadTimestamp(lines[2]) /\ Parseable(lines[3])

\* C14: an aliasing record whose raw identity X names no stream and has no
\* alias, while exactly one stream Y has the child and the stream number of
\* X, is recorded on Y; X -> Y is added to the Alias Table, which is
\* otherwise kept; no stream is created and the other streams are kept.
SameChildAndStream(self, x) ==
    {i \in 1..Len(self.streams_by_gid) :
        /\ split_gid(stream_at(self, i).gid)[1] = split_gid(x)[1]
        /\ split_gid(stream_at(self, i).gid)[3] = split_gid(x)[3]}

SingleCandidate(self, e) ==
    /\ raw_gid(self, e) # None
    /\ rule_of(self, e).aliasing
    /\ raw_gid(self, e) \notin gids(self)
    /\ raw_gid(self, e) \notin DOMAIN self.gid_by_alias
    /\ Cardinality(SameChildAndStream(self, raw_gid(self, e))) = 1

C14_SingleCandidateAliased ==
    \A e \in Records :
        (Observable /\ SingleCandidate(collector, e)) =>
            LET x == raw_gid(collector, e)
                y == CHOOSE i \in SameChildAndStream(collector, x) : TRUE
                n == rule_of(collector, e).event
                r == observe(collector, e).self
            IN /\ Len(r.streams_by_gid) = Len(collector.streams_by_gid)
               /\ x \notin gids(r)
               /\ \A i \in 1..Len(r.streams_by_gid) :
                     i # y => stream_at(r, i) = stream_at(collector, i)
               /\ stream_at(r, y) = add_event(stream_at(collector, y), n, e)
               /\ DOMAIN r.gid_by_alias =
                     DOMAIN collector.gid_by_alias \cup {x}
               /\ r.gid_by_alias[x] = stream_at(collector, y).gid
               /\ \A a \in DOMAIN collector.gid_by_alias :
                     r.gid_by_alias[a] = collector.gid_by_alias[a]

\* a record about to be reconciled with the one stream of its child, while
\* a stream of another child has the same stream number
C14_Witness ==
    /\ Observable
    /\ \E e \in Records :
          /\ SingleCandidate(collector, e)
          /\ Cardinality(candidates_any_child(collector,
                                              raw_gid(collector, e))) = 2
          /\ observe(collector, e).log = "attached"

\* C15: a record of a rule that is not creating, whose raw identity names no
\* stream and has no alias and, for an aliasing rule, has no candidate
\* either, leaves the streams, their events and the Alias Table as they are;
\* and no record of a rule that is not creating changes the set of streams.
Unresolved(self, e) ==
    /\ raw_gid(self, e) # None
    /\ ~rule_of(self, e).creating
    /\ raw_gid(self, e) \notin gids(self)
    /\ raw_gid(self, e) \notin DOMAIN self.gid_by_alias
    /\ rule_of(self, e).aliasing =>
          SameChildAndStream(self, raw_gid(self, e)) = {}

C15_UnknownDiscarded ==
    \A e \in Records :
        Observable =>
            /\ Unresolved(collector, e) => observe(collector, e).self = collector
            /\ (raw_gid(collector, e) # None /\ ~rule_of(collector, e).creating)
                  => gids(observe(collector, e).self) = gids(collector)

\* with a stream in the registry: a record of a rule that is not aliasing
\* and one of the aliasing rule, both for unknown streams
C15_Witness ==
    /\ Observable
    /\ Len(collector.streams_by_gid) >= 1
    /\ \E e \in Records :
          Unresolved(collector, e) /\ ~rule_of(collector, e).aliasing
    /\ \E e \in Records :
          /\ Unresolved(collector, e) /\ rule_of(collector, e).aliasing
          /\ observe(collector, e).log = "unknown"

\* C16: a record some rule matches either changes nothing or adds itself
\* once, under the event name of the first rule in declared order whose
\* pattern matches, to one stream (which it may create), every other stream
\* being kept; a record that both an 'ended' rule and a 'frame' rule match
\* leaves the 'frame' events of every stream as they were.
Matching(self, e) ==
    {i \in 1..Len(self.matcher) :
        self.matcher[i].pattern \in PatternsMatching(e.message.shape)}

FirstRule(self, e) ==
    self.matcher[CHOOSE i \in Matching(self, e) :
                    \A j \in Matching(self, e) : i <= j]

frames_of(self, g) ==
    IF g \in gids(self) /\ "frame" \in DOMAIN stream_of(self, g).events
    THEN stream_of(self, g).events["frame"] ELSE <<>>

C16_FirstMatchWins ==
    \A e \in Records :
        (Observable /\ e.module = "http2" /\ Matching(collector, e) # {}) =>
            LET r == observe(collector, e).self
                n == FirstRule(collector, e).event
            IN /\ \/ r = collector
                  \/ \E g \in gids(r) :
                        /\ gids(r) = gids(collector) \cup {g}
                        /\ r.gid_by_alias \in
                              {collector.gid_by_alias} \cup
                              {collector.gid_by_alias @@ (x :> g) :
                                  x \in {raw_gid(collector, e)}}
                        /\ stream_of(r, g) =
                              add_event(IF g \in gids(collector)
                                        THEN stream_of(collector, g)
                                        ELSE H2StreamEvents(g), n, e)
                        /\ \A h \in gids(collector) \ {g} :
                              stream_of(r, h) = stream_of(collector, h)
               /\ num_events(r) <= num_events(collector) + 1
               /\ (\E i, j \in Matching(collector, e) :
                      /\ collector.matcher[i].event = "ended"
                      /\ collector.matcher[j].event = "frame")
                    => /\ num_events(r) = num_events(collector) + 1
                            => n = "ended"
                       /\ \A g \in gids(r) :
                             frames_of(r, g) = frames_of(collector, g)

\* a collector with the frame rules holding a stream whose 'ended' event is
\* a record that the generic frame pattern matches too, and a 'frame' event
C16_Witness ==
    /\ Len(collector.matcher) > Len(LIFETIME_MATCHER)
    /\ \E i \in 1..Len(collector.streams_by_gid) :
          LET s == stream_at(collector, i)
          IN /\ event(s, "ended") # None
             /\ event(s, "ended").message.shape = "sent_headers_eos"
             /\ Cardinality(Matching(collector, event(s, "ended"))) = 2
             /\ event(s, "frame") # None
             /\ event(s, "frame").message.shape = "stream_frame"

\* the registry after the first k entries of the log, and the first entry
\* that gave the stream g a started (an ended) event: the entry after which
\* the field is set for the first time
stats_after(k) == add_events_loop(<<>>, SubSeq(log_entries, 1, k), 1)

HasStarted(k, g) ==
    /\ g \in stats_gids(stats_after(k))
    /\ stats_after(k)[stats_index(stats_after(k), g)].started # None

HasEnded(k, g) ==
    /\ g \in stats_gids(stats_after(k))
    /\ stats_after(k)[stats_index(stats_after(k), g)].ended # None

first_started(g) ==
    IF ~HasStarted(Len(log_entries), g) THEN None
    ELSE log_entries[CHOOSE k \in 1..Len(log_entries) :
            HasStarted(k, g) /\ \A j \in 0..(k - 1) : ~HasStarted(j, g)]

first_ended(g) ==
    IF ~HasEnded(Len(log_entries), g) THEN None
    ELSE log_entries[CHOOSE k \in 1..Len(log_entries) :
            HasEnded(k, g) /\ \A j \in 0..(k - 1) : ~HasEnded(j, g)]

\* C17: after one add_events the change list is the one built from each
\* stream's first started and first ended entry.
C17_FirstOccurrenceTimeline ==
    builds = 1 =>
        changes = add_streams(<<>>,
                      [i \in 1..Len(streams) |->
                          [streams[i] EXCEPT
                              !.started = first_started(streams[i].gid),
                              !.ended = first_ended(streams[i].gid)]])

\* C18: the in-use count is never negative, and the change list has one -1
\* for each stream that has both a started and an ended entry and no other.
C18_NeverNegative ==
    builds = 1 =>
        /\ \A t \in 0..MaxTime : in_use_at(changes, t) >= 0
        /\ Cardinality({i \in 1..Len(changes) : changes[i].change = -1}) =
           Cardinality({j \in 1..Len(streams) :
                           streams[j].started # None /\ streams[j].ended # None})

\* C19: after any number of add_streams calls the in-use count is the one of
\* a change list built once from the streams.
C19_RebuiltWholesale ==
    builds >= 1 =>
        \A t \in 0..MaxInstant :
            in_use_at(changes, t) = in_use_at(add_streams(<<>>, streams), t)

\* C20: all_streams() holds every stream of the registry once and
\* get_streams() a part of them; both are ascending by the time of the
\* stream's first 'created' record, streams of equal time in the order in
\* which they were created; streams in both have the same relative order.
inserted_at(self, s) ==
    CHOOSE i \in 1..Len(self.streams_by_gid) : stream_at(self, i).gid = s.gid

InCreationOrder(self, seq) ==
    \A i, j \in 1..Len(seq) :
        i < j =>
            LET ti == seq[i].events["created"][1].timedelta
                tj == seq[j].events["created"][1].timedelta
            IN \/ ti < tj
               \/ ti = tj /\ inserted_at(self, seq[i]) < inserted_at(self, seq[j])

C20_OrderedByCreated ==
    LET all == all_streams(collector)
        got == get_streams(collector)
    IN /\ Len(all) = Len(collector.streams_by_gid)
       /\ \A i \in 1..Len(all) : all[i] = stream_of(collector, all[i].gid)
       /\ \A i \in 1..Len(got) : got[i] = stream_of(collector, got[i].gid)
       /\ InCreationOrder(collector, all)
       /\ InCreationOrder(collector, got)
       /\ \A i, j \in 1..Len(got) :
             i < j => \E k, l \in 1..Len(all) :
                         k < l /\ all[k] = got[i] /\ all[l] = got[j]

\* three streams, the first created later than the other two, which were
\* created at the same time; the filter lets two of the three pass
C20_Witness ==
    /\ Len(collector.streams_by_gid) = 3
    /\ created_timedelta(stream_at(collector, 1))
          > created_timedelta(stream_at(collector, 2))
    /\ created_timedelta(stream_at(collector, 2))
          = created_timedelta(stream_at(collector, 3))
    /\ Len(get_streams(collector)) = 2
    /\ all_streams(collector)[3] = stream_at(collector, 1)

\* C21: the change list built by add_events is the one built from the
\* streams whose stream component is not 0.
IsConnection(s) == endswith(s.gid, <<"-", "0">>)

NotConnection(s) == ~IsConnection(s)

C21_ConnectionsExcluded ==
    builds = 1 =>
        changes = add_streams(<<>>, SelectSeq(streams, NotConnection))

\* C22: no key of the Alias Table is the identity of a stream, every value
\* of it is, and so no value is a key; and a record bearing an aliased
\* identity, a 'created' record included, leaves that identity without a
\* stream of its own and is recorded on the stream the alias names.
C22_AliasTableDisjoint ==
    /\ DOMAIN collector.gid_by_alias \cap gids(collector) = {}
    /\ \A x \in DOMAIN collector.gid_by_alias :
          /\ collector.gid_by_alias[x] \in gids(collector)
          /\ collector.gid_by_alias[x] \notin DOMAIN collector.gid_by_alias
    /\ \A e \in Records :
          (/\ Observable
           /\ raw_gid(collector, e) # None
           /\ raw_gid(collector, e) \in DOMAIN collector.gid_by_alias) =>
              LET x == raw_gid(collector, e)
                  y == collector.gid_by_alias[x]
                  r == observe(collector, e).self
              IN /\ gids(r) = gids(collector)
                 /\ r.gid_by_alias = collector.gid_by_alias
                 /\ stream_of(r, y) =
                       add_event(stream_of(collector, y),
                                 rule_of(collector, e).event, e)

\* an identity is aliased and a 'created' record bearing it can be observed
C22_Witness ==
    /\ Observable
    /\ \E e \in Records :
          /\ raw_gid(collector, e) # None
          /\ raw_gid(collector, e) \in DOMAIN collector.gid_by_alias
          /\ rule_of(collector, e).creating

\* C23: when the entries handed over so far came in non-decreasing time
\* order, every event recorded on a stream of the collector is not earlier
\* than the stream's 'created' record, and every offset that tdelta derives
\* for a stream of the statistics is not negative.
FedInOrder(calls) ==
    /\ NonDecreasing(log_entries)
    /\ calls >= 2 /\ Len(log_entries) >= 1 =>
          log_entries[Len(log_entries)].timedelta <= log_entries[1].timedelta

offsets(s) ==
    {e.timedelta - s.created.timedelta :
        e \in {s.started, s.ended, s.reset, s.cleanup, s.destroyed} \ {None}}

C23_OffsetsNotNegative ==
    /\ NonDecreasing(SubSeq(log_entries, 1, observed)) =>
          \A i \in 1..Len(collector.streams_by_gid) :
              LET s == stream_at(collector, i)
              IN \A n \in DOMAIN s.events :
                    \A k \in 1..Len(s.events[n]) :
                        s.events[n][k].timedelta
                            >= event(s, "created").timedelta
    /\ FedInOrder(builds) =>
          \A i \in 1..Len(streams) : \A d \in offsets(streams[i]) : d >= 0

\* the log was read to its end by both: the collector holds a stream with
\* an event that is later than its 'created' record, recorded through an
\* alias, and the statistics a stream started later than it was created
C23_Witness ==
    /\ observed = Len(log_entries)
    /\ builds = 1
    /\ DOMAIN collector.gid_by_alias # {}
    /\ \E i \in 1..Len(collector.streams_by_gid) :
          /\ event(stream_at(collector, i), "response") # None
          /\ event(stream_at(collector, i), "response").timedelta
                > event(stream_at(collector, i), "created").timedelta
    /\ \E i \in 1..Len(streams) : \E d \in offsets(streams[i]) : d > 0

====
